---- MODULE Spec2Model ----
(***************************************************************************)
(* Model of the prediction engine and page glue of src/main.js (the       *)
(* second PredictionEngine listing, lines 247-480).                        *)
(*                                                                         *)
(* JavaScript numbers are IEEE-754 doubles.  A double is modelled exactly  *)
(* as [neg, man, exp] standing for (-1)^neg * man * 2^exp, where man is a  *)
(* natural number written as a little-endian sequence of 14-bit limbs and  *)
(* is odd (or empty for zero).  Every arithmetic operator computes the     *)
(* exact real result and rounds it once to 53 significant bits, ties to    *)
(* even, which is what the JavaScript operators do.  Infinities, NaN       *)
(* results and subnormals are outside the range the engine's arithmetic    *)
(* reaches (magnitudes stay between 2^-60 and 2^7) and are not modelled.   *)
(***************************************************************************)
EXTENDS Integers, Sequences, FiniteSets, TLC

\* ------------------------------------------------------------------------
\* Natural numbers of arbitrary size: little-endian limb sequences, no
\* leading (high) zero limb; <<>> is 0.
\* ------------------------------------------------------------------------
LimbBits == 14

Base == 2 ^ LimbBits

Pow2Table == <<1, 2, 4, 8, 16, 32, 64, 128, 256, 512, 1024, 2048, 4096, 8192, 16384>>

Pow2(k) == Pow2Table[k + 1]

Limb(a, i) == IF i >= 1 /\ i <= Len(a) THEN a[i] ELSE 0

RECURSIVE BNorm(_)
BNorm(a) == IF a = <<>> THEN <<>>
            ELSE IF a[Len(a)] = 0 THEN BNorm(SubSeq(a, 1, Len(a) - 1))
            ELSE a

BFromInt(n) == IF n = 0 THEN <<>>
               ELSE IF n < Base THEN <<n>>
               ELSE IF n < Base * Base THEN <<n % Base, n \div Base>>
               ELSE <<n % Base, (n \div Base) % Base, n \div (Base * Base)>>

\* value of a number known to fit three limbs (below 2^31 in every use)
BToInt(a) == Limb(a, 1) + Base * Limb(a, 2) + Base * Base * Limb(a, 3)

RECURSIVE BAddC(_, _, _, _)
BAddC(a, b, i, c) ==
    IF i > Len(a) /\ i > Len(b)
    THEN (IF c = 0 THEN <<>> ELSE <<c>>)
    ELSE LET s == Limb(a, i) + Limb(b, i) + c
         IN  <<s % Base>> \o BAddC(a, b, i + 1, s \div Base)

BAdd(a, b) == BAddC(a, b, 1, 0)

\* a - b for a >= b
RECURSIVE BSubC(_, _, _, _)
BSubC(a, b, i, c) ==
    IF i > Len(a)
    THEN <<>>
    ELSE LET s == Limb(a, i) - Limb(b, i) - c
         IN  IF s < 0 THEN <<s + Base>> \o BSubC(a, b, i + 1, 1)
                      ELSE <<s>> \o BSubC(a, b, i + 1, 0)

BSub(a, b) == BNorm(BSubC(a, b, 1, 0))

\* -1, 0, 1 as a < b, a = b, a > b (both normalised)
RECURSIVE BCmpAt(_, _, _)
BCmpAt(a, b, i) ==
    IF i = 0 THEN 0
    ELSE IF a[i] < b[i] THEN -1
    ELSE IF a[i] > b[i] THEN 1
    ELSE BCmpAt(a, b, i - 1)

BCmp(a, b) == IF Len(a) < Len(b) THEN -1
              ELSE IF Len(a) > Len(b) THEN 1
              ELSE BCmpAt(a, b, Len(a))

\* a * k for a small k (k <= Base)
RECURSIVE BMulSmallC(_, _, _, _)
BMulSmallC(a, k, i, c) ==
    IF i > Len(a)
    THEN (IF c = 0 THEN <<>> ELSE <<c>>)
    ELSE LET s == a[i] * k + c
         IN  <<s % Base>> \o BMulSmallC(a, k, i + 1, s \div Base)

BMulSmall(a, k) == IF k = 0 THEN <<>>
                   ELSE IF k = Base THEN (IF a = <<>> THEN <<>> ELSE <<0>> \o a)
                   ELSE BNorm(BMulSmallC(a, k, 1, 0))

\* schoolbook product, one row per limb of b
RECURSIVE BMulRows(_, _, _)
BMulRows(a, b, j) ==
    IF j > Len(b) THEN <<>>
    ELSE BAdd(BMulSmall(a, b[j]),
              LET rest == BMulRows(a, b, j + 1)
              IN  IF rest = <<>> THEN <<>> ELSE <<0>> \o rest)

BMul(a, b) == IF a = <<>> \/ b = <<>> THEN <<>> ELSE BMulRows(a, b, 1)

Zeros(n) == [i \in 1..n |-> 0]

BShl(a, k) == IF a = <<>> THEN <<>>
              ELSE Zeros(k \div LimbBits) \o BMulSmall(a, Pow2(k % LimbBits))

\* floor(a / d) for a small d (0 < d <= Base), high limb first
RECURSIVE BDivSmallC(_, _, _, _)
BDivSmallC(a, d, i, r) ==
    IF i = 0 THEN <<>>
    ELSE LET cur == r * Base + a[i]
         IN  BDivSmallC(a, d, i - 1, cur % d) \o <<cur \div d>>

BDivSmall(a, d) == BNorm(BDivSmallC(a, d, Len(a), 0))

RECURSIVE BModSmallC(_, _, _, _)
BModSmallC(a, d, i, r) ==
    IF i = 0 THEN r ELSE BModSmallC(a, d, i - 1, (r * Base + a[i]) % d)

BModSmall(a, d) == BModSmallC(a, d, Len(a), 0)

DropLimbs(a, n) == IF n >= Len(a) THEN <<>> ELSE SubSeq(a, n + 1, Len(a))

BShr(a, k) == BDivSmall(DropLimbs(a, k \div LimbBits), Pow2(k % LimbBits))

RECURSIVE BitLenSmall(_)
BitLenSmall(n) == IF n = 0 THEN 0 ELSE 1 + BitLenSmall(n \div 2)

BitLen(a) == IF a = <<>> THEN 0
             ELSE (Len(a) - 1) * LimbBits + BitLenSmall(a[Len(a)])

\* bit i (0 = least significant) of a
BBit(a, i) == (Limb(a, (i \div LimbBits) + 1) \div Pow2(i % LimbBits)) % 2

\* TRUE iff some bit below position k is set
BLowNonZero(a, k) ==
    \/ \E i \in 1..(k \div LimbBits) : Limb(a, i) # 0
    \/ Limb(a, (k \div LimbBits) + 1) % Pow2(k % LimbBits) # 0

RECURSIVE TrailingZerosSmall(_)
TrailingZerosSmall(n) == IF n % 2 = 1 THEN 0 ELSE 1 + TrailingZerosSmall(n \div 2)

RECURSIVE BTrailingZerosAt(_, _)
BTrailingZerosAt(a, i) ==
    IF a[i] = 0 THEN LimbBits + BTrailingZerosAt(a, i + 1)
    ELSE TrailingZerosSmall(a[i])

\* number of trailing zero bits of a # 0
BTrailingZeros(a) == BTrailingZerosAt(a, 1)

\* ------------------------------------------------------------------------
\* IEEE-754 doubles (JavaScript Number), round to nearest, ties to even.
\* ------------------------------------------------------------------------
Precision == 53

\* canonical form: odd mantissa, or the empty mantissa with exponent 0
Canon(neg, M, E) ==
    IF M = <<>> THEN [neg |-> neg, man |-> <<>>, exp |-> 0]
    ELSE LET tz == BTrailingZeros(M)
         IN  [neg |-> neg, man |-> BShr(M, tz), exp |-> E + tz]

\* the double nearest to (-1)^neg * (M + s) * 2^E, where 0 <= s < 1 and
\* s > 0 iff sticky (sticky only with M of more than Precision + 1 bits)
RoundTo(neg, M, E, sticky) ==
    LET n == BitLen(M)
    IN  IF n <= Precision THEN Canon(neg, M, E)
        ELSE LET r  == n - Precision
                 q  == BShr(M, r)
                 rb == BBit(M, r - 1)
                 st == sticky \/ BLowNonZero(M, r - 1)
                 up == rb = 1 /\ (st \/ BBit(q, 0) = 1)
             IN  Canon(neg, IF up THEN BAdd(q, <<1>>) ELSE q, E + r)

FromInt(n) == Canon(n < 0, BFromInt(IF n < 0 THEN -n ELSE n), 0)

FZero == [neg |-> FALSE, man |-> <<>>, exp |-> 0]

FIsZero(x) == x.man = <<>>

FNeg(x) == [x EXCEPT !.neg = ~x.neg]

FAbs(x) == [x EXCEPT !.neg = FALSE]

FMul(x, y) == RoundTo(x.neg # y.neg, BMul(x.man, y.man), x.exp + y.exp, FALSE)

\* the sum of (-1)^xn * mx and (-1)^yn * my, both in units of 2^e and
\* neither zero; an exact cancellation is +0
AddAligned(xn, mx, yn, my, e) ==
    IF xn # yn /\ BCmp(mx, my) = 0 THEN FZero
    ELSE RoundTo(IF xn = yn \/ BCmp(mx, my) > 0 THEN xn ELSE yn,
                 IF xn = yn THEN BAdd(mx, my)
                 ELSE IF BCmp(mx, my) > 0 THEN BSub(mx, my)
                 ELSE BSub(my, mx),
                 e, FALSE)

FAdd(x, y) ==
    IF FIsZero(x) THEN (IF FIsZero(y) THEN [y EXCEPT !.neg = x.neg /\ y.neg] ELSE y)
    ELSE IF FIsZero(y) THEN x
    ELSE LET e == IF x.exp < y.exp THEN x.exp ELSE y.exp
         IN  AddAligned(x.neg, BShl(x.man, x.exp - e), y.neg, BShl(y.man, y.exp - e), e)

\* x / y for y # 0 with a mantissa of one limb, which covers every division
\* of the engine: by bankerCount + playerCount, by 1.5, and by the powers
\* of ten of its decimal literals
FDiv(x, y) ==
    IF FIsZero(x) THEN [x EXCEPT !.neg = (x.neg # y.neg)]
    ELSE LET want == Precision + 2 + BitLen(y.man) - BitLen(x.man)
             k    == IF want > 0 THEN want ELSE 0
             a    == BShl(x.man, k)
         IN  RoundTo(x.neg # y.neg, BDivSmall(a, y.man[1]), x.exp - y.exp - k,
                     BModSmall(a, y.man[1]) # 0)

\* -1, 0, 1 as x < y, x = y, x > y
FCmp(x, y) ==
    IF FIsZero(x) /\ FIsZero(y) THEN 0
    ELSE IF FIsZero(x) THEN (IF y.neg THEN 1 ELSE -1)
    ELSE IF FIsZero(y) THEN (IF x.neg THEN -1 ELSE 1)
    ELSE IF x.neg # y.neg THEN (IF x.neg THEN -1 ELSE 1)
    ELSE LET e == IF x.exp < y.exp THEN x.exp ELSE y.exp
             c == BCmp(BShl(x.man, x.exp - e), BShl(y.man, y.exp - e))
         IN  IF x.neg THEN -c ELSE c

FGt(x, y) == FCmp(x, y) > 0

FLt(x, y) == FCmp(x, y) < 0

FLe(x, y) == FCmp(x, y) <= 0

\* Math.max in place of Math.min
FMax(x, y) == IF FLt(x, y) THEN y ELSE x

\* Math.min(x, y)
FMin(x, y) == IF FLt(y, x) THEN y ELSE x

\* the double a decimal literal n/d denotes
Lit(n, d) == FDiv(FromInt(n), FromInt(d))

\* ------------------------------------------------------------------------
\* JavaScript values the engine receives.
\*   [kind |-> "undefined"]                 an absent field or argument
\*   [kind |-> "null"]
\*   [kind |-> "number", num |-> n]         an integer-valued Number
\*   [kind |-> "string", chars |-> seq]     a String, one entry per character
\*   [kind |-> "array",  items |-> seq]     an Array
\*   [kind |-> "object", ...]               an object literal with its fields
\* Array items are symbols (strings) for the roads, and for the cards
\*   [t |-> "num", v |-> n]  a value c with Number(c) = n
\*   [t |-> "nan"]           a value c with Number(c) = NaN
\* ------------------------------------------------------------------------
Undefined == [kind |-> "undefined"]

Null == [kind |-> "null"]

Num(n) == [kind |-> "number", num |-> n]

Str(cs) == [kind |-> "string", chars |-> cs]

Arr(xs) == [kind |-> "array", items |-> xs]

Card(n) == [t |-> "num", v |-> n]

NaNCard == [t |-> "nan"]

\* !v
Falsy(v) ==
    \/ v.kind \in {"undefined", "null"}
    \/ v.kind = "number" /\ v.num = 0
    \/ v.kind = "string" /\ v.chars = <<>>

\* Array.isArray(v)
IsArray(v) == v.kind = "array"

\* a destructuring default: `name = dflt` takes dflt only for undefined
Default(v, dflt) == IF v.kind = "undefined" THEN dflt ELSE v

\* the indexable content of a value: v[i] reads from it
Elems(v) == IF v.kind = "array" THEN v.items
            ELSE IF v.kind = "string" THEN v.chars
            ELSE <<>>

\* v[0] in place of v[v.length - 1]
FirstOf(v) == IF Elems(v) = <<>> THEN "undefined" ELSE Elems(v)[1]

\* v[v.length - 1]: undefined for an empty array or string, and for a
\* number (whose length is undefined, so the index is NaN)
LastOf(v) == IF Elems(v) = <<>> THEN "undefined" ELSE Elems(v)[Len(Elems(v))]

\* a % n as JavaScript computes it for integers: sign of the dividend
JsRem(a, n) == IF a >= 0 THEN a % n ELSE -((-a) % n)

\* outcome of a call: a returned value, or a thrown TypeError
Return(v) == [threw |-> FALSE, val |-> v]

Throw == [threw |-> TRUE]

\* ------------------------------------------------------------------------
\* class PredictionEngine
\* ------------------------------------------------------------------------
WeightPattern == Lit(4, 10)

WeightCardPoints == Lit(3, 10)

WeightDownRoad == Lit(3, 10)

\* the numeric literals of the engine
LastBonus == Lit(1, 10)

CardLean == Lit(3, 10)

ColourScore == Lit(5, 10)

DownRoadNorm == Lit(15, 10)

Threshold == Lit(5, 100)

One == FromInt(1)

RecentWindow == 10

\* the whole road in place of the slice
RecentAll(xs) == xs

\* beadRoad.slice(-10)
Recent(xs) == IF Len(xs) <= RecentWindow THEN xs
              ELSE SubSeq(xs, Len(xs) - RecentWindow + 1, Len(xs))

\* recent.filter(r => r === sym).length
CountOf(xs, sym) == Cardinality({i \in 1..Len(xs) : xs[i] = sym})

_evaluatePattern(beadRoad) ==
    IF Falsy(beadRoad) \/ (IsArray(beadRoad) /\ beadRoad.items = <<>>)
    THEN Return(FZero)
    ELSE IF ~IsArray(beadRoad)
    THEN Throw  \* a number has no slice, a string slice has no filter
    ELSE LET last        == LastOf(beadRoad)
             recent      == Recent(beadRoad.items)
             bankerCount == CountOf(recent, "B")
             playerCount == CountOf(recent, "P")
             bias        == IF bankerCount + playerCount > 0
                            THEN FDiv(FromInt(bankerCount - playerCount),
                                      FromInt(bankerCount + playerCount))
                            ELSE FZero
             lastBonus   == IF last = "B" THEN LastBonus
                            ELSE IF last = "P" THEN FNeg(LastBonus)
                            ELSE FZero
         IN  Return(FAdd(bias, lastBonus))

RECURSIVE PointSumFrom(_, _, _)
PointSumFrom(cards, i, sum) ==
    IF i > Len(cards) THEN sum
    ELSE LET c == cards[i]
         IN  IF c.t = "nan" THEN PointSumFrom(cards, i + 1, sum)
             ELSE PointSumFrom(cards, i + 1, sum + (IF c.v >= 10 THEN 0 ELSE c.v))

\* _baccaratPointSum without the final % 10
_baccaratPointSumNoMod(cards) == PointSumFrom(cards, 1, 0)

_baccaratPointSum(cards) == JsRem(PointSumFrom(cards, 1, 0), 10)

_evaluateCardPoints(bankerCards, playerCards) ==
    IF ~IsArray(bankerCards) \/ ~IsArray(playerCards) THEN FZero
    ELSE LET bankerTotal == _baccaratPointSum(bankerCards.items)
             playerTotal == _baccaratPointSum(playerCards.items)
             diff        == bankerTotal - playerTotal
         IN  IF diff > 0 THEN FNeg(CardLean)
             ELSE IF diff < 0 THEN CardLean
             ELSE FZero

\* toScore with the two colours exchanged
toScoreSwapped(color) == IF color = "R" THEN FNeg(ColourScore)
                         ELSE IF color = "B" THEN ColourScore
                         ELSE FZero

toScore(color) == IF color = "R" THEN ColourScore
                  ELSE IF color = "B" THEN FNeg(ColourScore)
                  ELSE FZero

\* downRoad.name of `downRoad || {}`
DownField(downRoad, name) ==
    IF downRoad.kind = "object" /\ name \in DOMAIN downRoad THEN downRoad[name]
    ELSE Undefined

_evaluateDownRoad(downRoad) ==
    LET bigEye    == Default(DownField(downRoad, "bigEye"), Arr(<<>>))
        smallRoad == Default(DownField(downRoad, "smallRoad"), Arr(<<>>))
        cockroach == Default(DownField(downRoad, "cockroach"), Arr(<<>>))
    IN  IF "null" \in {bigEye.kind, smallRoad.kind, cockroach.kind}
        THEN Throw  \* null has no length
        ELSE LET lastBig       == LastOf(bigEye)
                 lastSmall     == LastOf(smallRoad)
                 lastCockroach == LastOf(cockroach)
                 score         == FAdd(FAdd(FAdd(FZero, toScore(lastBig)),
                                            toScore(lastSmall)),
                                       toScore(lastCockroach))
             IN  Return(FDiv(score, DownRoadNorm))

\* _scoreToDecision with the neutral band resolved to the banker side
_scoreToDecisionNeutralBanker(totalScore) ==
    IF FGt(totalScore, Threshold) THEN [side |-> "BANKER", sideText |-> "zhuang"]
    ELSE IF FLt(totalScore, FNeg(Threshold)) THEN [side |-> "PLAYER", sideText |-> "xian"]
    ELSE [side |-> "BANKER", sideText |-> "zhuang"]

_scoreToDecision(totalScore) ==
    IF FGt(totalScore, Threshold) THEN [side |-> "BANKER", sideText |-> "zhuang"]
    ELSE IF FLt(totalScore, FNeg(Threshold)) THEN [side |-> "PLAYER", sideText |-> "xian"]
    ELSE [side |-> "PLAYER", sideText |-> "xian"]

\* input.name of `input || {}`
InputField(input, name) ==
    IF input.kind = "object" /\ name \in DOMAIN input THEN input[name]
    ELSE Undefined

\* the decision, the confidence and the returned object
predictNextDecision(patternScore, cardScore, downRoadScore, totalScore) ==
    LET result     == _scoreToDecision(totalScore)
        confidence == FMin(One, FAbs(totalScore))
    IN  Return([side |-> result.side,
                sideText |-> result.sideText,
                confidence |-> confidence,
                raw |-> [patternScore |-> patternScore,
                         cardScore |-> cardScore,
                         downRoadScore |-> downRoadScore,
                         totalScore |-> totalScore]])

\* the weighted sum of the three sub-scores; a sub-score that threw ends
\* the call
predictNextTotal(pattern, cardScore, down) ==
    IF pattern.threw \/ down.threw THEN Throw
    ELSE predictNextDecision(pattern.val, cardScore, down.val,
                             FAdd(FAdd(FMul(pattern.val, WeightPattern),
                                       FMul(cardScore, WeightCardPoints)),
                                  FMul(down.val, WeightDownRoad)))

predictNext(input) ==
    LET beadRoad    == Default(InputField(input, "beadRoad"), Arr(<<>>))
        bankerCards == Default(InputField(input, "bankerCards"), Arr(<<>>))
        playerCards == Default(InputField(input, "playerCards"), Arr(<<>>))
        downRoad    == Default(InputField(input, "downRoad"), [kind |-> "object"])
    IN  predictNextTotal(_evaluatePattern(beadRoad),
                         _evaluateCardPoints(bankerCards, playerCards),
                         _evaluateDownRoad(downRoad))

\* ------------------------------------------------------------------------
\* State
\* ------------------------------------------------------------------------
VARIABLES
    input,             \* the argument of the call under way or last made
    result,            \* what the call returned or threw; NoResult before
    pc,                \* "start" before a call, "done" after it; for the
                       \* page "loading" and then "ready"
    beadRoadInput,     \* text of the form fields, one entry per character
    bankerCardsInput,
    playerCardsInput,
    bigEyeSelect,      \* value of the three selects
    smallRoadSelect,
    cockroachSelect,
    predictionResult,  \* textContent of #predictionResult
    logArea,           \* textContent of #logArea
    calls,             \* number of calls of predictNext made by the page
    clicks,            \* number of clicks on the run button handled
    edits,             \* number of keystrokes and selections made
    elements           \* which of #predictionResult and #logArea exist

engineVars == <<input, result, pc>>

fieldVars == <<beadRoadInput, bankerCardsInput, playerCardsInput,
               bigEyeSelect, smallRoadSelect, cockroachSelect>>

pageVars == <<predictionResult, logArea, calls, clicks, edits, elements>>

vars == <<engineVars, fieldVars, pageVars>>

\* the page as it is while the engine is exercised directly
PageUntouched ==
    /\ beadRoadInput = <<>>
    /\ bankerCardsInput = <<>>
    /\ playerCardsInput = <<>>
    /\ bigEyeSelect = ""
    /\ smallRoadSelect = ""
    /\ cockroachSelect = ""
    /\ predictionResult = ""
    /\ logArea = ""
    /\ calls = 0
    /\ clicks = 0
    /\ edits = 0
    /\ elements = {"predictionResult", "logArea"}

NoResult == [threw |-> FALSE, val |-> [side |-> "none"]]

Obj(bead, banker, player, down) ==
    [kind |-> "object", beadRoad |-> bead, bankerCards |-> banker,
     playerCards |-> player, downRoad |-> down]

Down(big, small, cock) ==
    [kind |-> "object", bigEye |-> big, smallRoad |-> small, cockroach |-> cock]

\* ------------------------------------------------------------------------
\* Bounded input families
\* ------------------------------------------------------------------------
BeadSyms == {"B", "P", "T"}

Rep(sym, n) == [i \in 1..n |-> sym]

\* roads made of at most k runs of equal symbols, at most n entries long
RECURSIVE RunRoads(_, _)
RunRoads(k, n) ==
    IF k = 0 \/ n = 0 THEN {<<>>}
    ELSE {<<>>} \cup UNION { { Rep(sym, c) \o r : r \in RunRoads(k - 1, n - c) }
                             : sym \in BeadSyms, c \in 1..n }

RECURSIVE SeqsUpTo(_, _)
SeqsUpTo(S, n) ==
    IF n = 0 THEN {<<>>}
    ELSE LET shorter == SeqsUpTo(S, n - 1)
         IN  shorter \cup { Append(q, x) : q \in shorter, x \in S }

MaxRunsW == 2

MaxBeadW == 6

\* inputs of the documented shape: arrays of 'B'/'P'/'T', of card points
\* and of 'R'/'B'
IsWellFormedInput(v) ==
    \E b \in RunRoads(MaxRunsW, MaxBeadW),
       bc \in {<<>>, <<Card(1)>>}, pc2 \in {<<>>, <<Card(1)>>},
       d1 \in SeqsUpTo({"R", "B"}, 1), d2 \in SeqsUpTo({"R", "B"}, 1),
       d3 \in SeqsUpTo({"R", "B"}, 1) :
         v = Obj(Arr(b), Arr(bc), Arr(pc2), Down(Arr(d1), Arr(d2), Arr(d3)))

\* values of other shapes in each position, one position at a time
BeadVals == {Undefined, Null, Num(0), Num(5), Str(<<>>), Str(<<"B", "P">>),
             Arr(<<>>), Arr(<<"B">>), Arr(<<"P", "T">>)}

CardVals == {Undefined, Null, Num(7), Str(<<"7">>), Arr(<<>>), Arr(<<Card(5)>>),
             Arr(<<NaNCard, Card(12), Card(7), Card(8)>>)}

DownFieldVals == {Undefined, Null, Num(2), Str(<<>>), Str(<<"R">>),
                  Arr(<<>>), Arr(<<"R">>), Arr(<<"X", "B">>)}

DownVals == {Undefined, Null, Num(3), Str(<<"R">>), [kind |-> "object"]}
            \cup { Down(d1, d2, d3) : d1 \in DownFieldVals, d2 \in DownFieldVals,
                                      d3 \in DownFieldVals }

IsOtherShapeInput(v) ==
    \/ \E b \in BeadVals, d \in {Undefined, Down(Arr(<<"R">>), Arr(<<>>), Arr(<<>>))} :
         v = Obj(b, Arr(<<>>), Arr(<<>>), d)
    \/ \E b \in {Arr(<<>>), Arr(<<"B">>)}, bc \in CardVals, pc2 \in CardVals :
         v = Obj(b, bc, pc2, Undefined)
    \/ \E b \in {Arr(<<>>), Arr(<<"P">>)}, d \in DownVals :
         v = Obj(b, Arr(<<>>), Arr(<<>>), d)
    \/ v \in {Undefined, Null, Num(0), [kind |-> "object"]}

\* demoInput of runDemoPrediction
DemoInput ==
    Obj(Arr(<<"B", "P", "B", "B", "P", "B", "B", "P", "B", "B">>),
        Arr(<<Card(4), Card(6)>>), Arr(<<Card(9), Card(1)>>),
        Down(Arr(<<"R", "R", "R", "R">>), Arr(<<"R", "R", "B">>),
             Arr(<<"R", "R", "R">>)))

\* an example of 6 banker and 4 player rounds, the last a banker round,
\* written with the symbols of the engine
LetterInput ==
    Obj(Arr(<<"B", "P", "B", "P", "P", "B", "B", "P", "B", "B">>),
        Arr(<<Card(4), Card(6)>>), Arr(<<Card(9), Card(1)>>),
        Down(Arr(<<"R", "R", "R", "R">>), Arr(<<"R", "R", "B">>),
             Arr(<<"R", "R", "R">>)))

\* the same rounds written with whole-word symbols
WordInput ==
    Obj(Arr(<<"BANKER", "PLAYER", "BANKER", "PLAYER", "PLAYER", "BANKER",
              "BANKER", "PLAYER", "BANKER", "BANKER">>),
        Arr(<<Card(4), Card(6)>>), Arr(<<Card(9), Card(1)>>),
        Down(Arr(<<"RED", "RED", "RED", "RED">>), Arr(<<"RED", "RED", "BLUE">>),
             Arr(<<"RED", "RED", "RED">>)))

Init ==
    /\ \/ IsWellFormedInput(input)
       \/ IsOtherShapeInput(input)
       \/ input \in {DemoInput, LetterInput, WordInput}
    /\ result = NoResult
    /\ pc = "start"
    /\ PageUntouched

PredictNext ==
    /\ pc = "start"
    /\ result' = predictNext(input)
    /\ pc' = "done"
    /\ UNCHANGED <<input, fieldVars, pageVars>>

Next == PredictNext

Spec == Init /\ [][Next]_vars

\* --- _evaluatePattern on its own ----------------------------------------
MaxRuns == 3

MaxBead == 12

InitPattern ==
    /\ \E b \in RunRoads(MaxRuns, MaxBead) : input = Arr(b)
    /\ result = NoResult
    /\ pc = "start"
    /\ PageUntouched

EvaluatePattern ==
    /\ pc = "start"
    /\ result' = _evaluatePattern(input)
    /\ pc' = "done"
    /\ UNCHANGED <<input, fieldVars, pageVars>>

NextPattern == EvaluatePattern

SpecPattern == InitPattern /\ [][NextPattern]_vars

\* --- _evaluateCardPoints on its own -------------------------------------
CardRanks == 0..13

MaxCards == 3

Hands == { [i \in 1..Len(q) |-> Card(q[i])] : q \in SeqsUpTo(CardRanks, MaxCards) }

\* the empty hand and the one-card hands of every total
SmallHands == {<<>>} \cup { <<Card(r)>> : r \in 0..9 }

InitCards ==
    /\ \E h \in Hands, k \in SmallHands :
          \/ input = [bankerCards |-> Arr(h), playerCards |-> Arr(k)]
          \/ input = [bankerCards |-> Arr(k), playerCards |-> Arr(h)]
    /\ result = NoResult
    /\ pc = "start"
    /\ PageUntouched

EvaluateCardPoints ==
    /\ pc = "start"
    /\ result' = Return(_evaluateCardPoints(input.bankerCards, input.playerCards))
    /\ pc' = "done"
    /\ UNCHANGED <<input, fieldVars, pageVars>>

NextCards == EvaluateCardPoints

SpecCards == InitCards /\ [][NextCards]_vars

\* --- _evaluateDownRoad on its own ---------------------------------------
MaxDown == 2

ColourSyms == {"R", "B", "X"}

InitDownRoad ==
    /\ \E d1 \in SeqsUpTo(ColourSyms, MaxDown),
          d2 \in SeqsUpTo(ColourSyms, MaxDown),
          d3 \in SeqsUpTo(ColourSyms, MaxDown) :
            input = Down(Arr(d1), Arr(d2), Arr(d3))
    /\ result = NoResult
    /\ pc = "start"
    /\ PageUntouched

EvaluateDownRoad ==
    /\ pc = "start"
    /\ result' = _evaluateDownRoad(input)
    /\ pc' = "done"
    /\ UNCHANGED <<input, fieldVars, pageVars>>

NextDownRoad == EvaluateDownRoad

SpecDownRoad == InitDownRoad /\ [][NextDownRoad]_vars

\* ------------------------------------------------------------------------
\* Number.prototype.toFixed: the integer n nearest to x * 10^f (the larger
\* one on a tie), written with f digits after the point.
\* ------------------------------------------------------------------------
DigitChars == <<"0", "1", "2", "3", "4", "5", "6", "7", "8", "9">>

RECURSIVE NatToStr(_)
NatToStr(n) == IF n < 10 THEN DigitChars[n + 1]
               ELSE NatToStr(n \div 10) \o DigitChars[(n % 10) + 1]

RECURSIVE FracToStr(_, _)
FracToStr(n, f) == IF f = 0 THEN ""
                   ELSE FracToStr(n \div 10, f - 1) \o DigitChars[(n % 10) + 1]

RECURSIVE Pow10(_)
Pow10(f) == IF f = 0 THEN 1 ELSE 10 * Pow10(f - 1)

toFixed(x, f) ==
    LET N == BMulSmall(x.man, Pow10(f))
        n == IF x.exp >= 0 THEN BShl(N, x.exp)
             ELSE BAdd(BShr(N, -x.exp),
                       IF BBit(N, -x.exp - 1) = 1 THEN <<1>> ELSE <<>>)
        v == BToInt(n)
    IN  (IF x.neg /\ ~FIsZero(x) THEN "-" ELSE "")
          \o NatToStr(v \div Pow10(f))
          \o (IF f = 0 THEN "" ELSE "." \o FracToStr(v % Pow10(f), f))

\* ------------------------------------------------------------------------
\* The page glue.  Field texts are sequences of characters; " " stands
\* for white space.  The Chinese texts of the page are written in English.
\* ------------------------------------------------------------------------
IsSpace(c) == c = " "

\* text.split(/\s+/)
RECURSIVE SplitFrom(_, _, _, _)
SplitFrom(text, i, cur, out) ==
    IF i > Len(text) THEN Append(out, cur)
    ELSE IF IsSpace(text[i])
    THEN (IF i > 1 /\ IsSpace(text[i - 1]) THEN SplitFrom(text, i + 1, cur, out)
          ELSE SplitFrom(text, i + 1, <<>>, Append(out, cur)))
    ELSE SplitFrom(text, i + 1, Append(cur, text[i]), out)

Split(text) == SplitFrom(text, 1, <<>>, <<>>)

\* x.trim()
RECURSIVE Trim(_)
Trim(tok) == IF tok = <<>> THEN tok
             ELSE IF IsSpace(Head(tok)) THEN Trim(Tail(tok))
             ELSE IF IsSpace(tok[Len(tok)]) THEN Trim(SubSeq(tok, 1, Len(tok) - 1))
             ELSE tok

UpperChar(c) == IF c = "b" THEN "B" ELSE IF c = "p" THEN "P"
                ELSE IF c = "t" THEN "T" ELSE IF c = "x" THEN "X" ELSE c

\* x.toUpperCase()
toUpperCase(tok) == [i \in 1..Len(tok) |-> UpperChar(tok[i])]

RECURSIVE KeepOutcomes(_)
KeepOutcomes(toks) ==
    IF toks = <<>> THEN <<>>
    ELSE IF Head(toks) \in {<<"B">>, <<"P">>, <<"T">>}
    THEN <<Head(toks)[1]>> \o KeepOutcomes(Tail(toks))
    ELSE KeepOutcomes(Tail(toks))

parseBeadRoad(text) ==
    IF text = <<>> THEN <<>>
    ELSE LET toks == Split(text)
         IN  KeepOutcomes([i \in 1..Len(toks) |-> toUpperCase(Trim(toks[i]))])

IsDigit(c) == c \in {"0", "1", "2", "3", "4", "5", "6", "7", "8", "9"}

DigitVal(c) == CHOOSE d \in 0..9 : DigitChars[d + 1] = c

RECURSIVE DecimalVal(_, _)
DecimalVal(tok, acc) == IF tok = <<>> THEN acc
                        ELSE DecimalVal(Tail(tok), 10 * acc + DigitVal(Head(tok)))

\* Number(tok) for a token of digits and letters: 0 for the empty token,
\* the decimal value of a digit string, NaN otherwise
NumberOf(tok) == IF \A i \in 1..Len(tok) : IsDigit(tok[i])
                 THEN Card(DecimalVal(tok, 0)) ELSE NaNCard

RECURSIVE KeepNumbers(_)
KeepNumbers(cs) ==
    IF cs = <<>> THEN <<>>
    ELSE IF Head(cs).t = "nan" THEN KeepNumbers(Tail(cs))
    ELSE <<Head(cs)>> \o KeepNumbers(Tail(cs))

parseCards(text) ==
    IF text = <<>> THEN <<>>
    ELSE LET toks == Split(text)
         IN  KeepNumbers([i \in 1..Len(toks) |-> NumberOf(Trim(toks[i]))])

buildDownRoadFromSelects ==
    Down(Arr(IF bigEyeSelect # "" THEN <<bigEyeSelect>> ELSE <<>>),
         Arr(IF smallRoadSelect # "" THEN <<smallRoadSelect>> ELSE <<>>),
         Arr(IF cockroachSelect # "" THEN <<cockroachSelect>> ELSE <<>>))

ReadyText == "Enter the bead road, card points and down-road colours, then press Start."

PromptText == "Please enter at least some bead road data (B / P)."

ResultText(r) ==
    "XiaoP suggests: " \o r.sideText \o " (confidence: "
      \o toFixed(FMul(r.confidence, FromInt(100)), 1) \o "%)"

DetailText(r) ==
    "Scores: pattern=" \o toFixed(r.raw.patternScore, 2)
      \o ", cards=" \o toFixed(r.raw.cardScore, 2)
      \o ", downRoad=" \o toFixed(r.raw.downRoadScore, 2)
      \o ", total=" \o toFixed(r.raw.totalScore, 2)

MaxBeadText == 3

MaxCardText == 2

MaxEdits == 3

MaxClicks == 2

BeadKeys == {"B", "p", " ", "x"}

CardKeys == {"7", "x"}

SelectValues == {"", "R", "B"}

InitPage ==
    /\ input = Undefined
    /\ result = NoResult
    /\ pc = "loading"
    /\ beadRoadInput = <<>>
    /\ bankerCardsInput = <<>>
    /\ playerCardsInput = <<>>
    /\ bigEyeSelect = ""
    /\ smallRoadSelect = ""
    /\ cockroachSelect = ""
    /\ predictionResult = ""
    /\ logArea = ""
    /\ calls = 0
    /\ clicks = 0
    /\ edits = 0
    /\ elements \in SUBSET {"predictionResult", "logArea"}

\* the DOMContentLoaded listener
DOMContentLoaded ==
    /\ pc = "loading"
    /\ pc' = "ready"
    /\ logArea' = IF "logArea" \in elements THEN ReadyText ELSE logArea
    /\ UNCHANGED <<input, result, fieldVars, predictionResult, calls, clicks,
                   edits, elements>>

\* the user at the form
Edit(field, value) ==
    /\ edits < MaxEdits
    /\ edits' = edits + 1
    /\ beadRoadInput' = IF field = "beadRoad" THEN value ELSE beadRoadInput
    /\ bankerCardsInput' = IF field = "bankerCards" THEN value ELSE bankerCardsInput
    /\ playerCardsInput' = IF field = "playerCards" THEN value ELSE playerCardsInput
    /\ bigEyeSelect' = IF field = "bigEye" THEN value ELSE bigEyeSelect
    /\ smallRoadSelect' = IF field = "smallRoad" THEN value ELSE smallRoadSelect
    /\ cockroachSelect' = IF field = "cockroach" THEN value ELSE cockroachSelect
    /\ UNCHANGED <<engineVars, predictionResult, logArea, calls, clicks, elements>>

TypeBeadRoad ==
    \E c \in BeadKeys :
        /\ Len(beadRoadInput) < MaxBeadText
        /\ Edit("beadRoad", Append(beadRoadInput, c))

TypeBankerCards ==
    \E c \in CardKeys :
        /\ Len(bankerCardsInput) < MaxCardText
        /\ Edit("bankerCards", Append(bankerCardsInput, c))

TypePlayerCards ==
    \E c \in CardKeys :
        /\ Len(playerCardsInput) < MaxCardText
        /\ Edit("playerCards", Append(playerCardsInput, c))

SelectBigEye == \E v \in SelectValues \ {bigEyeSelect} : Edit("bigEye", v)

SelectSmallRoad == \E v \in SelectValues \ {smallRoadSelect} : Edit("smallRoad", v)

SelectCockroach == \E v \in SelectValues \ {cockroachSelect} : Edit("cockroach", v)

\* runUserPrediction without the check of an empty bead road
runUserPredictionUnguarded ==
    /\ pc = "ready"
    /\ clicks < MaxClicks
    /\ clicks' = clicks + 1
    /\ \E arg \in {Obj(Arr(parseBeadRoad(beadRoadInput)), Arr(parseCards(bankerCardsInput)),
                         Arr(parseCards(playerCardsInput)), buildDownRoadFromSelects)} :
       \E r \in {predictNext(arg)} :
           /\ input' = arg
           /\ result' = r
           /\ calls' = calls + 1
           /\ predictionResult' = IF "predictionResult" \in elements
                                  THEN ResultText(r.val) ELSE predictionResult
           /\ logArea' = IF "logArea" \in elements THEN DetailText(r.val) ELSE logArea
    /\ UNCHANGED <<pc, fieldVars, edits, elements>>

\* the click listener of the run button
runUserPrediction ==
    /\ pc = "ready"
    /\ clicks < MaxClicks
    /\ clicks' = clicks + 1
    /\ \E beadRoad \in {parseBeadRoad(beadRoadInput)},
          bankerCards \in {parseCards(bankerCardsInput)},
          playerCards \in {parseCards(playerCardsInput)},
          downRoad \in {buildDownRoadFromSelects} :
           IF Len(beadRoad) = 0
           THEN /\ logArea' = IF "logArea" \in elements THEN PromptText ELSE logArea
                /\ UNCHANGED <<input, result, predictionResult, calls>>
           ELSE \E result2 \in {predictNext(Obj(Arr(beadRoad), Arr(bankerCards),
                                                Arr(playerCards), downRoad))} :
                /\ input' = Obj(Arr(beadRoad), Arr(bankerCards), Arr(playerCards), downRoad)
                /\ result' = result2
                /\ calls' = calls + 1
                /\ IF result2.threw
                   THEN UNCHANGED <<predictionResult, logArea>>
                   ELSE /\ predictionResult' =
                             IF "predictionResult" \in elements
                             THEN ResultText(result2.val) ELSE predictionResult
                        /\ logArea' = IF "logArea" \in elements
                                      THEN DetailText(result2.val) ELSE logArea
    /\ UNCHANGED <<pc, fieldVars, edits, elements>>

NextPage ==
    \/ DOMContentLoaded
    \/ TypeBeadRoad
    \/ TypeBankerCards
    \/ TypePlayerCards
    \/ SelectBigEye
    \/ SelectSmallRoad
    \/ SelectCockroach
    \/ runUserPrediction

SpecPage == InitPage /\ [][NextPage]_vars

\* ------------------------------------------------------------------------
\* Vocabulary of the properties
\* ------------------------------------------------------------------------
Done == pc = "done"

FEq(x, y) == FCmp(x, y) = 0

\* 2^-30
Tolerance == [neg |-> FALSE, man |-> <<1>>, exp |-> -30]

\* x agrees with the decimal n/d to within 2^-30 (nine decimal places)
Near(x, n, d) == FLt(FAbs(FAdd(x, FNeg(Lit(n, d)))), Tolerance)

IsSeqOver(v, S) == v.kind = "array" /\ \A i \in 1..Len(v.items) : v.items[i] \in S

IsCardSeq(v) == v.kind = "array" /\ \A i \in 1..Len(v.items) : v.items[i].t = "num"

\* an input of the documented shape
WellFormed(v) ==
    /\ v.kind = "object"
    /\ DOMAIN v = {"kind", "beadRoad", "bankerCards", "playerCards", "downRoad"}
    /\ IsSeqOver(v.beadRoad, BeadSyms)
    /\ IsCardSeq(v.bankerCards)
    /\ IsCardSeq(v.playerCards)
    /\ v.downRoad.kind = "object"
    /\ DOMAIN v.downRoad = {"kind", "bigEye", "smallRoad", "cockroach"}
    /\ IsSeqOver(v.downRoad.bigEye, {"R", "B"})
    /\ IsSeqOver(v.downRoad.smallRoad, {"R", "B"})
    /\ IsSeqOver(v.downRoad.cockroach, {"R", "B"})

\* absent or an empty array
AbsentOrEmpty(v) == v.kind = "undefined" \/ (v.kind = "array" /\ v.items = <<>>)

IsEmptyInput(v) ==
    \/ v.kind \in {"undefined", "null"}
    \/ /\ v.kind = "object"
       /\ AbsentOrEmpty(InputField(v, "beadRoad"))
       /\ AbsentOrEmpty(InputField(v, "bankerCards"))
       /\ AbsentOrEmpty(InputField(v, "playerCards"))
       /\ LET d == InputField(v, "downRoad")
          IN  \/ d.kind = "undefined"
              \/ /\ d.kind = "object"
                 /\ AbsentOrEmpty(DownField(d, "bigEye"))
                 /\ AbsentOrEmpty(DownField(d, "smallRoad"))
                 /\ AbsentOrEmpty(DownField(d, "cockroach"))

\* The weighted sum of the three sub-scores as a real number, times
\* ExactScale, computed in integers from the counts (well-formed inputs).
ExactScale == 2520 * 100

SignOf(n) == IF n > 0 THEN 1 ELSE IF n < 0 THEN -1 ELSE 0

ColourSign(xs) == IF xs = <<>> THEN 0
                  ELSE IF xs[Len(xs)] = "R" THEN 1
                  ELSE IF xs[Len(xs)] = "B" THEN -1 ELSE 0

ExactTotal(v) ==
    LET road == v.beadRoad.items
        b    == CountOf(Recent(road), "B")
        p    == CountOf(Recent(road), "P")
        bias == IF b + p > 0 THEN (b - p) * (2520 \div (b + p)) * 40 ELSE 0
        lb   == IF road = <<>> THEN 0
                ELSE IF road[Len(road)] = "B" THEN 10080
                ELSE IF road[Len(road)] = "P" THEN -10080 ELSE 0
        diff == _baccaratPointSum(v.bankerCards.items)
                  - _baccaratPointSum(v.playerCards.items)
        k    == ColourSign(v.downRoad.bigEye.items)
                  + ColourSign(v.downRoad.smallRoad.items)
                  + ColourSign(v.downRoad.cockroach.items)
    IN  bias + lb - 22680 * SignOf(diff) + 25200 * k

InUnitInterval(x) == FLe(FZero, x) /\ FLe(x, FromInt(1))

\* ------------------------------------------------------------------------
\* Properties of predictNext (specification Spec)
\* ------------------------------------------------------------------------

\* C1: for every input, absent and malformed fields included, predictNext
\* returns without throwing, with side BANKER or PLAYER and confidence in
\* [0, 1].
C1_NeverThrows ==
    Done => /\ ~result.threw
            /\ result.val.side \in {"BANKER", "PLAYER"}
            /\ InUnitInterval(result.val.confidence)

\* C2: side is BANKER exactly when totalScore > 0.05, and every input whose
\* weighted sum is exactly 0.05 or exactly -0.05 resolves to PLAYER.
C2_BoundaryIsPlayer ==
    (Done /\ WellFormed(input)) =>
        /\ ~result.threw
        /\ (result.val.side = "BANKER"
              <=> FGt(result.val.raw.totalScore, Lit(5, 100)))
        /\ result.val.side \in {"BANKER", "PLAYER"}
        /\ (ExactTotal(input) \in {ExactScale \div 20, -(ExactScale \div 20)}
              => result.val.side = "PLAYER")

\* the value a field that is not an array is said to be treated as
AsSeq(v) == IF v.kind = "array" THEN v ELSE Arr(<<>>)

Sanitized(v) ==
    LET d == InputField(v, "downRoad")
    IN  Obj(AsSeq(InputField(v, "beadRoad")),
            AsSeq(InputField(v, "bankerCards")),
            AsSeq(InputField(v, "playerCards")),
            Down(AsSeq(DownField(d, "bigEye")),
                 AsSeq(DownField(d, "smallRoad")),
                 AsSeq(DownField(d, "cockroach"))))

\* C3: a field that is not a sequence is treated as an empty one: the
\* output is the output for the input with that field replaced by an empty
\* sequence, and nothing is thrown.
C3_MalformedAsEmpty ==
    Done => /\ ~result.threw
            /\ result = predictNext(Sanitized(input))

ExampleScores(r) ==
    /\ ~r.threw
    /\ Near(r.val.raw.patternScore, 3, 10)
    /\ FEq(r.val.raw.cardScore, FZero)
    /\ Near(r.val.raw.downRoadScore, 1, 3)
    /\ Near(r.val.raw.totalScore, 22, 100)
    /\ r.val.side = "BANKER"
    /\ Near(r.val.confidence, 22, 100)

NeutralScores(r) ==
    /\ ~r.threw
    /\ FEq(r.val.raw.patternScore, FZero)
    /\ FEq(r.val.raw.cardScore, FZero)
    /\ FEq(r.val.raw.downRoadScore, FZero)
    /\ FEq(r.val.raw.totalScore, FZero)
    /\ r.val.side = "PLAYER"
    /\ FEq(r.val.confidence, FZero)

\* C4 as stated: the example written with the symbols BANKER/PLAYER and
\* RED/BLUE yields patternScore 0.3, cardScore 0, downRoadScore 1/3,
\* totalScore 0.22, side BANKER, confidence 0.22.
C4_WordSymbolsCounted == (Done /\ input = WordInput) => ExampleScores(result)

\* C4 amended: the example written with the symbols 'B'/'P' and 'R'/'B'
\* yields those scores (to double rounding); written with BANKER/PLAYER and
\* RED/BLUE no entry is counted and the output is the neutral one.
C4_LetterSymbolsCounted ==
    /\ (Done /\ input = LetterInput) => ExampleScores(result)
    /\ (Done /\ input = WordInput) => NeutralScores(result)

C4_Witness == Done /\ input = LetterInput /\ ~result.threw /\ result.val.side = "BANKER"

\* C8: empty or absent beadRoad, cards and downRoad (or an absent input)
\* give all four scores 0, side PLAYER and confidence 0.
C8_EmptyInputNeutral == (Done /\ IsEmptyInput(input)) => NeutralScores(result)

C8_Witness ==
    /\ Done
    /\ input = Obj(Arr(<<>>), Arr(<<>>), Arr(<<>>), Down(Arr(<<>>), Arr(<<>>), Arr(<<>>)))
    /\ ~result.threw
    /\ result.val.side = "PLAYER"

\* 1.1*0.4 + 0.3*0.3 + 1.0*0.3 as doubles
TotalBound ==
    FAdd(FAdd(FMul(Lit(11, 10), WeightPattern), FMul(Lit(3, 10), WeightCardPoints)),
         FMul(FromInt(1), WeightDownRoad))

ClampInactive(r, bound) ==
    /\ ~r.threw
    /\ FLe(FAbs(r.val.raw.totalScore), bound)
    /\ FLt(bound, FromInt(1))
    /\ FEq(r.val.confidence, FAbs(r.val.raw.totalScore))
    /\ (r.val.side = "BANKER" => FGt(r.val.confidence, Lit(5, 100)))
    /\ (FLe(r.val.confidence, Lit(5, 100)) => r.val.side = "PLAYER")

\* C10 as stated: for well-formed inputs |totalScore| <= 0.83, so the
\* clamp is inactive and confidence = |totalScore|; BANKER implies
\* confidence > 0.05 and confidence <= 0.05 implies PLAYER.
C10_BoundedBy083 ==
    (Done /\ WellFormed(input)) => ClampInactive(result, Lit(83, 100))

\* C10 amended: the same with the bound 1.1*0.4 + 0.3*0.3 + 1.0*0.3 taken
\* as the double the sum evaluates to (0.8300000000000001).
C10_BoundedByComputedSum ==
    (Done /\ WellFormed(input)) => ClampInactive(result, TotalBound)

C10_Witness ==
    /\ Done
    /\ WellFormed(input)
    /\ ~result.threw
    /\ FGt(FAbs(result.val.raw.totalScore), Lit(83, 100))
    /\ result.val.side = "BANKER"

\* ------------------------------------------------------------------------
\* Properties of the three sub-scores
\* ------------------------------------------------------------------------
RECURSIVE MappedPoints(_)
MappedPoints(cards) ==
    IF cards = <<>> THEN 0
    ELSE (IF Head(cards).v >= 10 THEN 0 ELSE Head(cards).v) + MappedPoints(Tail(cards))

\* C5: for hands of ranks 0..13 each hand total is the sum of the mapped
\* points (rank >= 10 counts 0) modulo 10, so lies in 0..9 ([10,10,10]
\* gives 0, [7,8] gives 5), and the card sub-score is exactly -0.3, +0.3 or
\* 0 as the banker total is above, below or equal to the player total.
C5_CardPoints ==
    Done =>
        LET bankerTotal == _baccaratPointSum(input.bankerCards.items)
            playerTotal == _baccaratPointSum(input.playerCards.items)
        IN  /\ bankerTotal = MappedPoints(input.bankerCards.items) % 10
            /\ playerTotal = MappedPoints(input.playerCards.items) % 10
            /\ bankerTotal \in 0..9
            /\ playerTotal \in 0..9
            /\ input.bankerCards.items = <<Card(10), Card(10), Card(10)>>
                 => bankerTotal = 0
            /\ input.bankerCards.items = <<Card(7), Card(8)>> => bankerTotal = 5
            /\ ~result.threw
            /\ bankerTotal > playerTotal => result.val = FNeg(Lit(3, 10))
            /\ bankerTotal < playerTotal => result.val = Lit(3, 10)
            /\ bankerTotal = playerTotal => result.val = FZero

C5_Witness ==
    /\ Done
    /\ input.bankerCards.items = <<Card(7), Card(8)>>
    /\ input.playerCards.items = <<Card(6)>>
    /\ result.val = Lit(3, 10)

\* the entries of a road that fall in its last ten positions
InWindow(road, i) == i >= 1 /\ i <= Len(road) /\ i > Len(road) - 10

WindowCount(road, sym) ==
    Cardinality({i \in 1..Len(road) : InWindow(road, i) /\ road[i] = sym})

LastTen(road) == [i \in 1..(IF Len(road) < 10 THEN Len(road) ELSE 10) |->
                    road[Len(road) - (IF Len(road) < 10 THEN Len(road) ELSE 10) + i]]

\* C6: for a non-empty road patternScore is the patternScore of its last
\* ten entries alone: bias = (bankerCount - playerCount) / (bankerCount +
\* playerCount) over those entries (0 when none is a banker or player
\* entry), plus 0.1 / -0.1 / 0 as the very last entry is banker / player /
\* anything else.
C6_LastTenOnly ==
    (Done /\ input.items # <<>>) =>
        LET road == input.items
            b    == WindowCount(road, "B")
            p    == WindowCount(road, "P")
            bias == IF b + p > 0 THEN FDiv(FromInt(b - p), FromInt(b + p)) ELSE FZero
            last == road[Len(road)]
            lastBonus == IF last = "B" THEN Lit(1, 10)
                         ELSE IF last = "P" THEN Lit(-1, 10) ELSE FZero
        IN  /\ ~result.threw
            /\ result = _evaluatePattern(Arr(LastTen(road)))
            /\ result.val = FAdd(bias, lastBonus)

\* a road longer than the window whose older part is all player rounds
\* and whose window is all banker rounds
C6_Witness ==
    /\ Done
    /\ Len(input.items) > 10
    /\ input.items[1] = "P"
    /\ WindowCount(input.items, "P") = 0
    /\ result.val = Lit(11, 10)

DownLast(xs) == IF xs = <<>> THEN <<>> ELSE <<xs[Len(xs)]>>

LastOnly(d) == Down(Arr(DownLast(d.bigEye.items)), Arr(DownLast(d.smallRoad.items)),
                    Arr(DownLast(d.cockroach.items)))

ColourSum(d) == ColourSign(d.bigEye.items) + ColourSign(d.smallRoad.items)
                  + ColourSign(d.cockroach.items)

\* C7: the down-road sub-score depends only on the last entry of each of
\* the three roads; each contributes +0.5 (red), -0.5 (blue) or 0, and the
\* sum divided by 1.5 is the score: 1.0 for three red, -1.0 for three
\* blue, always in [-1, 1].
C7_LastEntriesOnly ==
    Done =>
        /\ ~result.threw
        /\ result = _evaluateDownRoad(LastOnly(input))
        /\ result.val = FDiv(FMul(FromInt(ColourSum(input)), Lit(5, 10)), Lit(15, 10))
        /\ (ColourSum(input) = 3 => result.val = FromInt(1))
        /\ (ColourSum(input) = -3 => result.val = FromInt(-1))
        /\ FLe(FromInt(-1), result.val)
        /\ FLe(result.val, FromInt(1))

\* three roads whose earlier entries are blue and whose last entries are red
C7_Witness ==
    /\ Done
    /\ input = Down(Arr(<<"B", "R">>), Arr(<<"B", "R">>), Arr(<<"B", "R">>))
    /\ result.val = FromInt(1)

\* ------------------------------------------------------------------------
\* Property of the page glue (specification SpecPage)
\* ------------------------------------------------------------------------

\* the text holds a token that is one of the letters B, P, T in either case
HasOutcomeToken(text) ==
    \E i \in 1..Len(text) :
        /\ text[i] \in {"B", "b", "P", "p", "T", "t"}
        /\ (i = 1 \/ text[i - 1] = " ")
        /\ (i = Len(text) \/ text[i + 1] = " ")

\* C9: a click calls predictNext only when the parsed bead road is not
\* empty; on a blank text or one without a B/P/T token it writes the prompt
\* to the log area, makes no call and leaves the prediction display as the
\* previous click left it.
C9_EmptyRoadNotPredicted ==
    [][ /\ (clicks' # clicks /\ ~HasOutcomeToken(beadRoadInput))
             => /\ calls' = calls
                /\ predictionResult' = predictionResult
                /\ ("logArea" \in elements => logArea' = PromptText)
        /\ (calls' # calls)
             => /\ clicks' # clicks
                /\ HasOutcomeToken(beadRoadInput)
                /\ input'.beadRoad.items # <<>> ]_vars

\* a second click on a text without outcome token, after a prediction
C9_Witness ==
    /\ clicks = 2
    /\ calls = 1
    /\ ~HasOutcomeToken(beadRoadInput)
    /\ beadRoadInput # <<>>
    /\ logArea = PromptText
    /\ predictionResult = "XiaoP suggests: zhuang (confidence: 44.0%)"

====
